---- MODULE Spec2Model ----
(***************************************************************************)
(* QEMU block driver for files on NFS shares (block/nfs.c).                *)
(*                                                                         *)
(* One NFSClient (an opened connection and file), a set of coroutines that *)
(* issue nfs_co_readv / nfs_co_writev / nfs_co_flush on it, the main thread *)
(* that opens, creates, closes and asks for the allocated size, the        *)
(* reactor (fd handlers and bottom halves) and the protocol engine         *)
(* (libnfs).                                                               *)
(* Everything runs on one thread: a coroutine runs from its entry to its   *)
(* next yield or return without interleaving, and so does a fd handler;    *)
(* the engine's completion callback is split at its statements so that     *)
(* the states inside it are visible.                                       *)
(*                                                                         *)
(* The engine is an external library.  It is modelled by what the driver   *)
(* can observe of it: queued requests are sent by nfs_service(POLLOUT),    *)
(* replies are dispatched to the registered callback by                    *)
(* nfs_service(POLLIN), and nfs_which_events asks for POLLIN always and    *)
(* for POLLOUT while something is queued for sending.                      *)
(***************************************************************************)
EXTENDS Integers, Sequences, FiniteSets, TLC

\* ---------------------------------------------------------------- bounds
\* total number of read/write/flush calls in a behaviour
MaxOps == 2
\* sector numbers are 0..MaxSector
MaxSector == 1
\* nb_sectors is 1..MaxNbSectors
MaxNbSectors == 1
\* bytes per sector (512 in QEMU, scaled down)
BDRV_SECTOR_SIZE == 2
\* parameters in the query of a URL
MaxParams == 2
\* st_blocks of the file's metadata is 0..MaxBlocks
MaxBlocks == 2
\* bits of the C type int (32 on QEMU's hosts, scaled down); an int holds
\* -2^(IntBits-1) .. 2^(IntBits-1) - 1
IntBits == 6

\* ------------------------------------------------------ program constants
EIO == 5
ENOMEM == 12
EINVAL == 22
O_RDONLY == 0
O_RDWR == 2
O_CREAT == 64

POLLIN == "POLLIN"
POLLOUT == "POLLOUT"

\* the coroutines that use the client
Co == {1, 2}
\* the null coroutine pointer
NoCo == 0
\* the NFSRPC on the stack of nfs_get_allocated_file_size, which no coroutine
\* owns
MainTask == 3
\* the NFSRPCs that can be pending with the engine
Tasks == Co \cup {MainTask}

\* negative statuses the engine reports (-EACCES, -EIO)
NfsErrors == {-13, -EIO}

\* the byte the server holds at a byte offset of the file
FileByte(off) == off + 1

\* the `data' the engine hands to the callback for a read at `off': n bytes
FileData(off, n) == [i \in 1 .. n |-> FileByte(off + i - 1)]

\* statuses the engine can complete a request with
ReadStatuses(len) == NfsErrors \cup (0 .. len + 1)
WriteStatuses(len) == NfsErrors \cup (0 .. len + 1)
FsyncStatuses == NfsErrors \cup {0, 1}
FstatStatuses == NfsErrors \cup {0}

\* struct stat as far as the driver reads it; set: the memory was written
NoStat == [set |-> FALSE, st_blocks |-> 0, st_blksize |-> 0]
\* the metadata the server can answer a query with
Stats == {[set |-> TRUE, st_blocks |-> b, st_blksize |-> BDRV_SECTOR_SIZE] :
            b \in 0 .. MaxBlocks}

VARIABLES
    client,   \* NFSClient: context, fh (non-null or not), events
    handler,  \* the reactor's registration for the client's fd
    task,     \* task[c]: the NFSRPC on the stack of coroutine c
    iov,      \* iov[c]: the bytes of the QEMUIOVector coroutine c was called with
    co,       \* co[c]: where coroutine c is, its call's arguments and result
    req,      \* req[c]: the engine's request whose private_data is task[c]
    run,      \* what the thread is inside of: a fd handler, the callback
    hist,     \* hist[c]: per call, bottom halves scheduled/run and entries
    nops,     \* calls made so far
    main,     \* the main thread: the driver function it is in, its arguments,
              \* its result and the library calls it made
    bs        \* BlockDriverState: drv (the driver has opened it), total_sectors

vars == <<client, handler, task, iov, co, req, run, hist, nops, main, bs>>

\* ----------------------------------------------------------- NFSRPC
NullTask == [status |-> 0, complete |-> 0, iov |-> FALSE, st |-> FALSE,
             co |-> NoCo, bh |-> "NULL"]

nfs_co_init_task(c) == [NullTask EXCEPT !.co = c]

\* ----------------------------------------------------------- iovec helpers
qemu_iovec_from_buf(v, off, data, n) ==
    [i \in 1 .. Len(v) |->
        IF i > off /\ i <= off + n /\ i - off <= Len(data)
        THEN data[i - off] ELSE v[i]]

\* qemu_iovec_to_buf(qiov, off, buf, n): n bytes of the vector from off
qemu_iovec_to_buf(v, off, n) ==
    [i \in 1 .. n |-> IF off + i <= Len(v) THEN v[off + i] ELSE 0]

qemu_iovec_memset(v, off, byte, n) ==
    [i \in 1 .. Len(v) |-> IF i > off /\ i <= off + n THEN byte ELSE v[i]]

\* ----------------------------------------------------------- Event Bridge
\* the readiness the engine wants, given its requests
nfs_which_events(rq) ==
    {POLLIN} \cup (IF \E c \in Tasks : rq[c].state = "outq" THEN {POLLOUT} ELSE {})

\* the reactor's registration after qemu_aio_set_fd_handler(fd, rd, wr, client)
qemu_aio_set_fd_handler(rd, wr) == [io_read |-> rd, io_write |-> wr]

\* mutant: the mask is not stored
nfs_set_events_nostore(cl, h, ev) ==
    [client  |-> cl,
     handler |-> IF ev # cl.events
                 THEN qemu_aio_set_fd_handler(POLLIN \in ev, POLLOUT \in ev)
                 ELSE h]

\* mutant: the write handler is never registered
nfs_set_events_nowrite(cl, h, ev) ==
    [client  |-> [cl EXCEPT !.events = ev],
     handler |-> IF ev # cl.events
                 THEN qemu_aio_set_fd_handler(POLLIN \in ev, FALSE)
                 ELSE h]

nfs_set_events(cl, h, ev) ==
    [client  |-> [cl EXCEPT !.events = ev],
     handler |-> IF ev # cl.events
                 THEN qemu_aio_set_fd_handler(POLLIN \in ev, POLLOUT \in ev)
                 ELSE h]

\* ----------------------------------------------------------- Init
NoReq == [state |-> "none", status |-> 0, off |-> 0, len |-> 0, data |-> NoStat]
NoRun == [svc |-> "none", cb |-> NoCo, line |-> 0, status |-> 0]
NoHist == [sched |-> 0, ran |-> 0, entered |-> 0]
IdleCo == [pc |-> "idle", op |-> "none", sector_num |-> 0, nb_sectors |-> 0,
           ret |-> 0, buf |-> "NULL", bufdata |-> <<>>]
\* the NFSClient after g_malloc0 or memset(client, 0, sizeof(NFSClient))
ZeroClient == [context |-> FALSE, fh |-> FALSE, events |-> {},
               has_zero_init |-> FALSE]
\* the filename argument: uri_parse succeeds or not, the path has a '/' or
\* not, the parameters of the query in their order
NoUrl == [parsed |-> FALSE, slash |-> FALSE, query |-> <<>>]
\* what the library calls of an open or create answer
NoEnv == [opts |-> TRUE, init |-> TRUE, mount |-> 0, open |-> 0, fstat |-> 0,
          st_size |-> 0, reg |-> TRUE, ftruncate |-> 0]
\* pc: idle, args (about to call op with url, rdwr, size and env), aio_wait
\* (inside qemu_aio_wait), returned (op has returned ret).  log: the library
\* calls op made, in their order; closes: its runs of nfs_client_close; cl:
\* the NFSClient it worked on as it left it; st: the struct stat on the stack
\* of nfs_get_allocated_file_size.
IdleMain == [pc |-> "idle", op |-> "none", ret |-> 0, st |-> NoStat,
             url |-> NoUrl, rdwr |-> FALSE, size |-> 0, env |-> NoEnv,
             errp |-> "NULL", log |-> <<>>, closes |-> <<>>,
             cl |-> ZeroClient]

\* nothing is in flight; cl, b: the NFSClient and the BlockDriverState
Start(cl, b, m) ==
    /\ client = cl
    /\ handler = qemu_aio_set_fd_handler(FALSE, FALSE)
    /\ task = [c \in Tasks |-> NullTask]
    /\ iov = [c \in Co |-> <<>>]
    /\ co = [c \in Co |-> IdleCo]
    /\ req = [c \in Tasks |-> NoReq]
    /\ run = NoRun
    /\ hist = [c \in Tasks |-> NoHist]
    /\ nops = 0
    /\ main = m
    /\ bs = b

\* the client right after a successful nfs_file_open of a regular file
Init ==
    Start([context |-> TRUE, fh |-> TRUE, events |-> {},
           has_zero_init |-> TRUE],
          [drv |-> TRUE, total_sectors |-> MaxSector + MaxNbSectors],
          IdleMain)

\* ----------------------------------------------------------- C library
\* A C string is the sequence of its characters; Chr(s, i) is the character
\* at index i - 1, the terminating NUL after the last one.
Chr(s, i) == IF i <= Len(s) THEN s[i] ELSE "NUL"

\* strncmp(a, b, n) is 0 when a and b agree in their first n characters, or
\* up to and including their NUL if that comes first
strncmp(a, b, n) ==
    IF \A i \in 1 .. n :
          (\A j \in 1 .. i - 1 : Chr(a, j) # "NUL") => Chr(a, i) = Chr(b, i)
    THEN 0 ELSE 1

Digits == <<"0", "1", "2", "3", "4", "5", "6", "7", "8", "9">>
IsDigit(ch) == \E i \in DOMAIN Digits : Digits[i] = ch
DigitVal(ch) == (CHOOSE i \in DOMAIN Digits : Digits[i] = ch) - 1

RECURSIVE atoi_digits(_, _, _)
atoi_digits(s, i, acc) ==
    IF IsDigit(Chr(s, i))
    THEN atoi_digits(s, i + 1, 10 * acc + DigitVal(s[i]))
    ELSE acc

\* atoi: an optional sign and the decimal digits that follow; what comes
\* after the digits is ignored
atoi(s) ==
    CASE Chr(s, 1) = "-" -> 0 - atoi_digits(s, 2, 0)
      [] Chr(s, 1) = "+" -> atoi_digits(s, 2, 0)
      [] OTHER -> atoi_digits(s, 1, 0)

DIV_ROUND_UP(n, d) == (n + d - 1) \div d

\* the conversion of an integer to int: the low IntBits bits, two's complement
ToInt(x) == ((x + 2 ^ (IntBits - 1)) % (2 ^ IntBits)) - 2 ^ (IntBits - 1)

\* flags & bit, for a bit that is a power of two
HasFlag(flags, bit) == (flags \div bit) % 2 = 1

\* ----------------------------------------------------------- open and close
\* The functions that open and close work on w: the NFSClient, the reactor's
\* registration for its fd, the Error set through errp, the library calls
\* made so far and the runs of nfs_client_close so far.
World(cl, h) ==
    [client |-> cl, handler |-> h, errp |-> "NULL", log |-> <<>>,
     closes |-> <<>>]

\* a library call with its integer argument (0 if it has none of interest)
LogCall(f, a) == [f |-> f, a |-> a]

\* mutant: the client is not cleared
nfs_client_close_nomemset(w) ==
    LET calls == IF w.client.context
                 THEN (IF w.client.fh THEN <<LogCall("nfs_close", 0)>> ELSE <<>>)
                      \o <<LogCall("qemu_aio_set_fd_handler", 0),
                           LogCall("nfs_destroy_context", 0)>>
                 ELSE <<>>
        h == IF w.client.context
             THEN qemu_aio_set_fd_handler(FALSE, FALSE) ELSE w.handler
    IN [w EXCEPT !.handler = h,
                 !.log = @ \o calls,
                 !.closes = Append(@, [before |-> w.client, hbefore |-> w.handler,
                                       calls |-> calls,
                                       after |-> w.client, hafter |-> h])]

\* mutant: only the context pointer is cleared
nfs_client_close_ctxonly(w) ==
    LET calls == IF w.client.context
                 THEN (IF w.client.fh THEN <<LogCall("nfs_close", 0)>> ELSE <<>>)
                      \o <<LogCall("qemu_aio_set_fd_handler", 0),
                           LogCall("nfs_destroy_context", 0)>>
                 ELSE <<>>
        h == IF w.client.context
             THEN qemu_aio_set_fd_handler(FALSE, FALSE) ELSE w.handler
        cl == [w.client EXCEPT !.context = FALSE, !.events = {}]
    IN [w EXCEPT !.client = cl,
                 !.handler = h,
                 !.log = @ \o calls,
                 !.closes = Append(@, [before |-> w.client, hbefore |-> w.handler,
                                       calls |-> calls,
                                       after |-> cl, hafter |-> h])]

\* mutant: the fd stays registered
nfs_client_close_nounreg(w) ==
    LET calls == IF w.client.context
                 THEN (IF w.client.fh THEN <<LogCall("nfs_close", 0)>> ELSE <<>>)
                      \o <<LogCall("nfs_destroy_context", 0)>>
                 ELSE <<>>
    IN [w EXCEPT !.client = ZeroClient,
                 !.log = @ \o calls,
                 !.closes = Append(@, [before |-> w.client, hbefore |-> w.handler,
                                       calls |-> calls,
                                       after |-> ZeroClient, hafter |-> w.handler])]

\* mutant: the context is destroyed before the fd is unregistered
nfs_client_close_destroyfirst(w) ==
    LET calls == IF w.client.context
                 THEN (IF w.client.fh THEN <<LogCall("nfs_close", 0)>> ELSE <<>>)
                      \o <<LogCall("nfs_destroy_context", 0),
                           LogCall("qemu_aio_set_fd_handler", 0)>>
                 ELSE <<>>
        h == IF w.client.context
             THEN qemu_aio_set_fd_handler(FALSE, FALSE) ELSE w.handler
    IN [w EXCEPT !.client = ZeroClient,
                 !.handler = h,
                 !.log = @ \o calls,
                 !.closes = Append(@, [before |-> w.client, hbefore |-> w.handler,
                                       calls |-> calls,
                                       after |-> ZeroClient, hafter |-> h])]

nfs_client_close(w) ==
    LET calls == IF w.client.context
                 THEN (IF w.client.fh THEN <<LogCall("nfs_close", 0)>> ELSE <<>>)
                      \o <<LogCall("qemu_aio_set_fd_handler", 0),
                           LogCall("nfs_destroy_context", 0)>>
                 ELSE <<>>
        h == IF w.client.context
             THEN qemu_aio_set_fd_handler(FALSE, FALSE) ELSE w.handler
        cl == ZeroClient
    IN [w EXCEPT !.client = cl,
                 !.handler = h,
                 !.log = @ \o calls,
                 !.closes = Append(@, [before |-> w.client, hbefore |-> w.handler,
                                       calls |-> calls,
                                       after |-> cl, hafter |-> h])]

\* the names nfs_client_open compares a parameter's name with
Name_uid == <<"u", "i", "d">>
Name_gid == <<"g", "i", "d">>
Name_tcp_syncnt == <<"t", "c", "p", "-", "s", "y", "n", "c", "n", "t">>
\* the value of a parameter that has none (a null pointer)
NoValue == <<"NULL">>

\* the loop over the parameters qp[i..]; ok: it ran to its end
RECURSIVE nfs_client_open_params(_, _, _)
nfs_client_open_params(w, qp, i) ==
    IF i > Len(qp)
    THEN [ok |-> TRUE, w |-> w]
    ELSE IF qp[i].value = NoValue
    THEN [ok |-> FALSE,
          w |-> [w EXCEPT !.errp = "Value for NFS parameter expected"]]
    ELSE IF strncmp(qp[i].name, Name_uid, 3) = 0
    THEN nfs_client_open_params(
             [w EXCEPT !.log = Append(@, LogCall("nfs_set_uid", atoi(qp[i].value)))],
             qp, i + 1)
    ELSE IF strncmp(qp[i].name, Name_gid, 3) = 0
    THEN nfs_client_open_params(
             [w EXCEPT !.log = Append(@, LogCall("nfs_set_gid", atoi(qp[i].value)))],
             qp, i + 1)
    ELSE IF strncmp(qp[i].name, Name_tcp_syncnt, 10) = 0
    THEN nfs_client_open_params(
             [w EXCEPT !.log = Append(@, LogCall("nfs_set_tcp_syncnt",
                                                 atoi(qp[i].value)))],
             qp, i + 1)
    ELSE [ok |-> FALSE, w |-> [w EXCEPT !.errp = "Unknown NFS parameter name"]]

\* the label fail of nfs_client_open, with the value of ret at the goto
nfs_client_open_fail(w, ret) == [w |-> nfs_client_close(w), ret |-> ret]

\* nfs_client_open(client, filename, flags, errp); ret is an int, the result
\* an int64_t
nfs_client_open(w0, url, flags, env) ==
    IF ~url.parsed \/ ~url.slash
    THEN nfs_client_open_fail([w0 EXCEPT !.errp = "Invalid URL specified"],
                              -EINVAL)
    ELSE
    LET w1 == [w0 EXCEPT !.client.context = env.init,
                         !.log = Append(@, LogCall("nfs_init_context", 0))]
    IN
    IF ~w1.client.context
    THEN nfs_client_open_fail(
             [w1 EXCEPT !.errp = "Failed to init NFS context"], -EINVAL)
    ELSE
    LET p == nfs_client_open_params(w1, url.query, 1) IN
    IF ~p.ok
    THEN nfs_client_open_fail(p.w, -EINVAL)
    ELSE
    LET w2 == [p.w EXCEPT !.log = Append(@, LogCall("nfs_mount", 0))] IN
    IF env.mount < 0
    THEN nfs_client_open_fail(
             [w2 EXCEPT !.errp = "Failed to mount nfs share"], env.mount)
    ELSE
    LET w3 == [w2 EXCEPT !.client.fh = (env.open >= 0),
                         !.log = Append(@,
                             IF HasFlag(flags, O_CREAT)
                             THEN LogCall("nfs_creat", 0)
                             ELSE LogCall("nfs_open", flags))]
    IN
    IF env.open < 0
    THEN nfs_client_open_fail(
             [w3 EXCEPT !.errp = IF HasFlag(flags, O_CREAT)
                                 THEN "Failed to create file"
                                 ELSE "Failed to open file"], env.open)
    ELSE
    LET w4 == [w3 EXCEPT !.log = Append(@, LogCall("nfs_fstat", 0))] IN
    IF env.fstat < 0
    THEN nfs_client_open_fail(
             [w4 EXCEPT !.errp = "Failed to fstat file"], env.fstat)
    ELSE [w |-> [w4 EXCEPT !.client.has_zero_init = env.reg],
          ret |-> ToInt(DIV_ROUND_UP(env.st_size, BDRV_SECTOR_SIZE))]

\* nfs_file_open(bs, options, flags, errp); ret is an int64_t, the result an
\* int.  b: the BlockDriverState.
nfs_file_open(w0, b, url, rdwr, env) ==
    IF ~env.opts
    THEN [w |-> w0, bs |-> b, ret |-> -EINVAL]
    ELSE LET r == nfs_client_open(w0, url,
                                  IF rdwr THEN O_RDWR ELSE O_RDONLY, env)
         IN IF r.ret < 0
            THEN [w |-> r.w, bs |-> b, ret |-> ToInt(r.ret)]
            ELSE [w |-> r.w, bs |-> [b EXCEPT !.total_sectors = r.ret],
                  ret |-> 0]

\* nfs_file_create(url, options, errp) with the option size; ret is an int
nfs_file_create(url, total_size, env) ==
    LET w0 == World(ZeroClient, qemu_aio_set_fd_handler(FALSE, FALSE))
        r == nfs_client_open(w0, url, O_CREAT, env)
        ret == ToInt(r.ret)
    IN IF ret < 0
       THEN [w |-> nfs_client_close(r.w), ret |-> ret]
       ELSE [w |-> nfs_client_close(
                       [r.w EXCEPT !.log =
                            Append(@, LogCall("nfs_ftruncate", total_size))]),
             ret |-> env.ftruncate]

\* ----------------------------------------------------------- coroutines
\* mutant: a short read is not zero padded
nfs_co_readv_tail_nopad(t, v) ==
    IF t.status < 0
    THEN [ret |-> t.status, iov |-> v]
    ELSE [ret |-> 0, iov |-> v]

\* mutant: a failed read returns a zeroed buffer
nfs_co_readv_tail_zero(t, v) ==
    IF t.status < Len(v)
    THEN [ret |-> IF t.status < 0 THEN t.status ELSE 0,
          iov |-> qemu_iovec_memset(v, IF t.status < 0 THEN 0 ELSE t.status, 0,
                                    Len(v) - (IF t.status < 0 THEN 0 ELSE t.status))]
    ELSE [ret |-> 0, iov |-> v]

\* nfs_co_readv after its wait loop
nfs_co_readv_tail(t, v) ==
    IF t.status < 0
    THEN [ret |-> t.status, iov |-> v]
    ELSE IF t.status < Len(v)
         THEN [ret |-> 0,
               iov |-> qemu_iovec_memset(v, t.status, 0, Len(v) - t.status)]
         ELSE [ret |-> 0, iov |-> v]

\* mutant: only a short count is an error
nfs_co_writev_tail_short(t, nb_sectors) ==
    IF t.status < nb_sectors * BDRV_SECTOR_SIZE
    THEN (IF t.status < 0 THEN t.status ELSE -EIO)
    ELSE 0

\* nfs_co_writev after its wait loop and g_free(buf)
nfs_co_writev_tail(t, nb_sectors) ==
    IF t.status # nb_sectors * BDRV_SECTOR_SIZE
    THEN (IF t.status < 0 THEN t.status ELSE -EIO)
    ELSE 0

\* mutant: a non-negative status is reported as 0
nfs_co_flush_tail_zero(t) == IF t.status < 0 THEN t.status ELSE 0

\* nfs_co_flush after its wait loop
nfs_co_flush_tail(t) == t.status

\* mutant: nothing is released
g_free_keep(b) == b

\* g_free(buf): the memory is released, and what it held is gone with it; a
\* pointer that was released before is no pointer to release (the heap is
\* corrupted); NULL is ignored
g_free(b) ==
    CASE b = "allocated" -> "freed"
      [] b = "NULL" -> "NULL"
      [] OTHER -> "invalid"

\* mutant: the coroutine releases its buffer before it yields
qemu_coroutine_yield_free(cr) ==
    [cr EXCEPT !.pc = "yield", !.buf = g_free(cr.buf), !.bufdata = <<>>]

\* qemu_coroutine_yield() in the wait loop of the coroutine with record cr
qemu_coroutine_yield(cr) == [cr EXCEPT !.pc = "yield"]

\* Coroutine c, with coroutine record cr, task t and iovec bytes v, runs from
\* the head of its wait loop until it yields or returns.  rq: the engine's
\* requests as they are when the loop is reached.
WaitLoop(c, cr, t, v, rq) ==
    IF t.complete = 0
    THEN LET se == nfs_set_events(client, handler, nfs_which_events(rq)) IN
         /\ client' = se.client
         /\ handler' = se.handler
         /\ co' = [co EXCEPT ![c] = qemu_coroutine_yield(cr)]
         /\ iov' = [iov EXCEPT ![c] = v]
    ELSE /\ UNCHANGED <<client, handler>>
         /\ CASE cr.op = "read" ->
                  LET r == nfs_co_readv_tail(t, v) IN
                  /\ co' = [co EXCEPT ![c] =
                              [cr EXCEPT !.pc = "returned", !.ret = r.ret]]
                  /\ iov' = [iov EXCEPT ![c] = r.iov]
              [] cr.op = "write" ->
                  /\ co' = [co EXCEPT ![c] =
                              [cr EXCEPT !.pc = "returned", !.buf = g_free(cr.buf),
                                         !.bufdata = <<>>,
                                         !.ret = nfs_co_writev_tail(t, cr.nb_sectors)]]
                  /\ iov' = [iov EXCEPT ![c] = v]
              [] OTHER ->
                  /\ co' = [co EXCEPT ![c] =
                              [cr EXCEPT !.pc = "returned",
                                         !.ret = nfs_co_flush_tail(t)]]
                  /\ iov' = [iov EXCEPT ![c] = v]

\* qemu_coroutine_enter(k): coroutine k goes on from its yield, which is the
\* end of the body of its wait loop.  tk: the tasks as the caller left them.
qemu_coroutine_enter(k, tk) ==
    IF k \in Co /\ co[k].pc = "yield"
    THEN WaitLoop(k, co[k], tk[k], iov[k], req)
    ELSE UNCHANGED <<client, handler, co, iov>>

\* a coroutine may be called: the thread is in no handler, the coroutine is not
\* suspended in an earlier call, and the client is open
CanCall(c) ==
    /\ run.svc = "none"
    /\ co[c].pc = "idle"
    /\ nops < MaxOps
    /\ client.context /\ client.fh

NewReq(sector_num, nb_sectors) ==
    [state |-> "outq", status |-> 0,
     off |-> sector_num * BDRV_SECTOR_SIZE, len |-> nb_sectors * BDRV_SECTOR_SIZE,
     data |-> NoStat]

\* rc: what nfs_pread_async returns
nfs_co_readv(c, sector_num, nb_sectors, rc) ==
    LET t == [nfs_co_init_task(c) EXCEPT !.iov = TRUE]
        v == [i \in 1 .. nb_sectors * BDRV_SECTOR_SIZE |-> 255]
        cr == [pc |-> "running", op |-> "read", sector_num |-> sector_num,
               nb_sectors |-> nb_sectors, ret |-> 0, buf |-> "NULL", bufdata |-> <<>>]
        rq == [req EXCEPT ![c] = NewReq(sector_num, nb_sectors)]
    IN
    /\ task' = [task EXCEPT ![c] = t]
    /\ hist' = [hist EXCEPT ![c] = NoHist]
    /\ nops' = nops + 1
    /\ run' = run
    /\ IF rc # 0
       THEN /\ req' = [req EXCEPT ![c] = NoReq]
            /\ co' = [co EXCEPT ![c] =
                        [cr EXCEPT !.pc = "returned", !.ret = -ENOMEM]]
            /\ iov' = [iov EXCEPT ![c] = v]
            /\ UNCHANGED <<client, handler>>
       ELSE /\ req' = rq
            /\ WaitLoop(c, cr, t, v, rq)

\* mutant: the buffer is not freed when submitting fails
nfs_co_writev_leak(c, sector_num, nb_sectors, rc) ==
    LET t == nfs_co_init_task(c)
        v == [i \in 1 .. nb_sectors * BDRV_SECTOR_SIZE |-> 170]
        cr == [pc |-> "running", op |-> "write", sector_num |-> sector_num,
               nb_sectors |-> nb_sectors, ret |-> 0, buf |-> "allocated",
               bufdata |-> qemu_iovec_to_buf(v, 0, Len(v))]
        rq == [req EXCEPT ![c] = NewReq(sector_num, nb_sectors)]
    IN
    /\ task' = [task EXCEPT ![c] = t]
    /\ hist' = [hist EXCEPT ![c] = NoHist]
    /\ nops' = nops + 1
    /\ run' = run
    /\ IF rc # 0
       THEN /\ req' = [req EXCEPT ![c] = NoReq]
            /\ co' = [co EXCEPT ![c] =
                        [cr EXCEPT !.pc = "returned", !.ret = -ENOMEM]]
            /\ iov' = [iov EXCEPT ![c] = v]
            /\ UNCHANGED <<client, handler>>
       ELSE /\ req' = rq
            /\ WaitLoop(c, cr, t, v, rq)

\* rc: what nfs_pwrite_async returns
nfs_co_writev(c, sector_num, nb_sectors, rc) ==
    LET t == nfs_co_init_task(c)
        v == [i \in 1 .. nb_sectors * BDRV_SECTOR_SIZE |-> 170]
        cr == [pc |-> "running", op |-> "write", sector_num |-> sector_num,
               nb_sectors |-> nb_sectors, ret |-> 0, buf |-> "allocated",
               bufdata |-> qemu_iovec_to_buf(v, 0, Len(v))]
        rq == [req EXCEPT ![c] = NewReq(sector_num, nb_sectors)]
    IN
    /\ task' = [task EXCEPT ![c] = t]
    /\ hist' = [hist EXCEPT ![c] = NoHist]
    /\ nops' = nops + 1
    /\ run' = run
    /\ IF rc # 0
       THEN /\ req' = [req EXCEPT ![c] = NoReq]
            /\ co' = [co EXCEPT ![c] =
                        [cr EXCEPT !.pc = "returned", !.buf = g_free(cr.buf),
                                   !.bufdata = <<>>,
                                   !.ret = -ENOMEM]]
            /\ iov' = [iov EXCEPT ![c] = v]
            /\ UNCHANGED <<client, handler>>
       ELSE /\ req' = rq
            /\ WaitLoop(c, cr, t, v, rq)

\* rc: what nfs_fsync_async returns
nfs_co_flush(c, rc) ==
    LET t == nfs_co_init_task(c)
        cr == [pc |-> "running", op |-> "flush", sector_num |-> 0,
               nb_sectors |-> 0, ret |-> 0, buf |-> "NULL", bufdata |-> <<>>]
        rq == [req EXCEPT ![c] = NewReq(0, 0)]
    IN
    /\ task' = [task EXCEPT ![c] = t]
    /\ hist' = [hist EXCEPT ![c] = NoHist]
    /\ nops' = nops + 1
    /\ run' = run
    /\ IF rc # 0
       THEN /\ req' = [req EXCEPT ![c] = NoReq]
            /\ co' = [co EXCEPT ![c] =
                        [cr EXCEPT !.pc = "returned", !.ret = -ENOMEM]]
            /\ iov' = [iov EXCEPT ![c] = <<>>]
            /\ UNCHANGED <<client, handler>>
       ELSE /\ req' = rq
            /\ WaitLoop(c, cr, t, <<>>, rq)

\* ----------------------------------------------------------- completion
\* mutant: the bottom half does not delete its handle
nfs_co_generic_bh_cb_keep(c) ==
    LET k == task[c].co IN
    /\ task' = [task EXCEPT ![c].bh = "idle"]
    /\ hist' = [h \in Tasks |->
                  [hist[h] EXCEPT !.ran = IF h = c THEN @ + 1 ELSE @,
                                  !.entered = IF h = k THEN @ + 1 ELSE @]]
    /\ qemu_coroutine_enter(k, task)
    /\ UNCHANGED <<req, run, nops>>

\* mutant: the bottom half enters the coroutine first; the handle it would
\* delete afterwards is in a frame that is gone, and stays scheduled
nfs_co_generic_bh_cb_after(c) ==
    LET k == task[c].co IN
    /\ task' = task
    /\ hist' = [h \in Tasks |->
                  [hist[h] EXCEPT !.ran = IF h = c THEN @ + 1 ELSE @,
                                  !.entered = IF h = k THEN @ + 1 ELSE @]]
    /\ qemu_coroutine_enter(k, task)
    /\ UNCHANGED <<req, run, nops>>

\* nfs_co_generic_bh_cb(task c): the bottom half
nfs_co_generic_bh_cb(c) ==
    LET tk == [task EXCEPT ![c].bh = "deleted"]
        k == task[c].co
    IN
    /\ task' = tk
    /\ hist' = [h \in Tasks |->
                  [hist[h] EXCEPT !.ran = IF h = c THEN @ + 1 ELSE @,
                                  !.entered = IF h = k THEN @ + 1 ELSE @]]
    /\ qemu_coroutine_enter(k, tk)
    /\ UNCHANGED <<req, run, nops>>

\* mutant: the callback enters the coroutine itself once the flag is set
Cb_L107_enter(c) ==
    LET tk == [task EXCEPT ![c].complete = 1] IN
    /\ task' = tk
    /\ hist' = [hist EXCEPT ![c].entered = @ + 1]
    /\ qemu_coroutine_enter(task[c].co, tk)
    /\ run' = [run EXCEPT !.line = 108]
    /\ UNCHANGED <<req, nops, main>>

\* mutant: the callback does not set the completion flag
Cb_L107_noflag(c) ==
    /\ task' = task
    /\ run' = [run EXCEPT !.line = 108]
    /\ UNCHANGED <<client, handler, iov, co, req, hist, nops, main>>

\* nfs_co_generic_cb, statement by statement; run.cb is the task it was
\* called with (private_data), run.status its status argument
Cb_L107(c) ==
    /\ task' = [task EXCEPT ![c].complete = 1]
    /\ run' = [run EXCEPT !.line = 108]
    /\ UNCHANGED <<client, handler, iov, co, req, hist, nops, main>>

Cb_L108(c) ==
    /\ task' = [task EXCEPT ![c].status = run.status]
    /\ run' = [run EXCEPT !.line = 109]
    /\ UNCHANGED <<client, handler, iov, co, req, hist, nops, main>>

\* mutant: the byte count is not checked against the buffer's size
Cb_L109_nocheck(c) ==
    /\ IF task[c].status > 0 /\ task[c].iov
       THEN /\ iov' = [iov EXCEPT ![c] =
                         qemu_iovec_from_buf(iov[c], 0,
                             FileData(req[c].off, task[c].status),
                             task[c].status)]
            /\ task' = task
       ELSE UNCHANGED <<task, iov>>
    /\ run' = [run EXCEPT !.line = 116]
    /\ UNCHANGED <<client, handler, co, req, hist, nops, main>>

\* mutant: the data is copied into the buffer of the first coroutine's call
Cb_L109_shared(c) ==
    /\ IF task[c].status > 0 /\ task[c].iov
       THEN IF task[c].status <= Len(iov[c])
            THEN /\ iov' = [iov EXCEPT ![1] =
                              qemu_iovec_from_buf(iov[1], 0,
                                  FileData(req[c].off, task[c].status),
                                  task[c].status)]
                 /\ task' = task
            ELSE /\ task' = [task EXCEPT ![c].status = -EIO]
                 /\ iov' = iov
       ELSE UNCHANGED <<task, iov>>
    /\ run' = [run EXCEPT !.line = 116]
    /\ UNCHANGED <<client, handler, co, req, hist, nops, main>>

\* lines 109-115; the engine's data is the file's bytes at the request's offset
Cb_L109(c) ==
    /\ IF task[c].status > 0 /\ task[c].iov
       THEN IF task[c].status <= Len(iov[c])
            THEN /\ iov' = [iov EXCEPT ![c] =
                              qemu_iovec_from_buf(iov[c], 0,
                                  FileData(req[c].off, task[c].status),
                                  task[c].status)]
                 /\ task' = task
            ELSE /\ task' = [task EXCEPT ![c].status = -EIO]
                 /\ iov' = iov
       ELSE UNCHANGED <<task, iov>>
    /\ run' = [run EXCEPT !.line = 116]
    /\ UNCHANGED <<client, handler, co, req, hist, nops, main>>

\* mutant: the metadata is copied whatever the status
Cb_L116_always(c) ==
    /\ IF task[c].st
       THEN main' = [main EXCEPT !.st = [req[c].data EXCEPT !.set = TRUE]]
       ELSE main' = main
    /\ run' = [run EXCEPT !.line = 122]
    /\ UNCHANGED <<client, handler, task, iov, co, req, hist, nops>>

\* lines 116-121: the engine's data is the metadata of the reply; task.st is
\* the struct stat of nfs_get_allocated_file_size, the only caller that sets
\* it.  The report at line 119 (which tests task->ret, no member of NFSRPC)
\* changes no state.
Cb_L116(c) ==
    /\ IF task[c].status = 0 /\ task[c].st
       THEN main' = [main EXCEPT !.st = req[c].data]
       ELSE main' = main
    /\ run' = [run EXCEPT !.line = 122]
    /\ UNCHANGED <<client, handler, task, iov, co, req, hist, nops>>

\* mutant: the callback enters the coroutine instead of scheduling a bottom half
Cb_L122_enter(c) ==
    /\ task' = task
    /\ hist' = [hist EXCEPT ![c].entered = @ + 1]
    /\ qemu_coroutine_enter(task[c].co, task)
    /\ run' = [run EXCEPT !.cb = NoCo, !.line = 0, !.status = 0]
    /\ UNCHANGED <<req, nops, main>>

\* mutant: a request that failed is submitted again instead of waking the caller
Cb_L122_retry(c) ==
    /\ IF task[c].status < 0
       THEN /\ task' = [task EXCEPT ![c].complete = 0, ![c].status = 0]
            /\ req' = [req EXCEPT ![c].state = "outq", ![c].status = 0]
            /\ hist' = hist
       ELSE /\ IF task[c].co # NoCo
               THEN /\ task' = [task EXCEPT ![c].bh = "scheduled"]
                    /\ hist' = [hist EXCEPT ![c].sched = @ + 1]
               ELSE UNCHANGED <<task, hist>>
            /\ req' = req
    /\ run' = [run EXCEPT !.cb = NoCo, !.line = 0, !.status = 0]
    /\ UNCHANGED <<client, handler, iov, co, nops, main>>

\* lines 122-125, and the return to nfs_service
Cb_L122(c) ==
    /\ IF task[c].co # NoCo
       THEN /\ task' = [task EXCEPT ![c].bh = "scheduled"]
            /\ hist' = [hist EXCEPT ![c].sched = @ + 1]
       ELSE UNCHANGED <<task, hist>>
    /\ run' = [run EXCEPT !.cb = NoCo, !.line = 0, !.status = 0]
    /\ UNCHANGED <<client, handler, iov, co, req, nops, main>>

nfs_co_generic_cb(c) ==
    /\ run.cb = c
    /\ \/ run.line = 107 /\ Cb_L107(c)
       \/ run.line = 108 /\ Cb_L108(c)
       \/ run.line = 109 /\ Cb_L109(c)
       \/ run.line = 116 /\ Cb_L116(c)
       \/ run.line = 122 /\ Cb_L122(c)

\* ----------------------------------------------------------- reactor, engine
StatusesOf(c) ==
    CASE c = MainTask -> FstatStatuses
      [] co[c].op = "read" -> ReadStatuses(req[c].len)
      [] co[c].op = "write" -> WriteStatuses(req[c].len)
      [] OTHER -> FsyncStatuses

\* nfs_service(POLLIN) calls the callback of request c with `status'
Dispatch(c, status) ==
    /\ req[c].state = "waitq"
    /\ status \in StatusesOf(c)
    /\ req' = [req EXCEPT ![c].state = "done", ![c].status = status]
    /\ run' = [svc |-> POLLIN, cb |-> c, line |-> 107, status |-> status]
    /\ UNCHANGED <<client, handler, task, iov, co, hist, nops>>

\* The fd is readable (the reply to c has arrived) and the reactor calls
\* nfs_process_read, which calls nfs_service(POLLIN).
nfs_process_read(c, status) ==
    /\ run.svc = "none"
    /\ handler.io_read
    /\ Dispatch(c, status)

\* nfs_service(POLLIN) finds a further reply
nfs_service_next(c, status) ==
    /\ run.svc = POLLIN
    /\ run.cb = NoCo
    /\ Dispatch(c, status)

\* nfs_service(POLLIN) returns to nfs_process_read, which calls nfs_set_events
nfs_process_read_return ==
    /\ run.svc = POLLIN
    /\ run.cb = NoCo
    /\ LET se == nfs_set_events(client, handler, nfs_which_events(req)) IN
       /\ client' = se.client
       /\ handler' = se.handler
    /\ run' = NoRun
    /\ UNCHANGED <<task, iov, co, req, hist, nops>>

OutQ == {c \in Tasks : req[c].state = "outq"}

\* mutant: the write handler does not run nfs_set_events
nfs_process_write_noset(S) ==
    /\ run.svc = "none"
    /\ handler.io_write
    /\ S \subseteq OutQ
    /\ S # {} \/ OutQ = {}
    /\ req' = [c \in Tasks |->
                 IF c \in S THEN [req[c] EXCEPT !.state = "waitq"] ELSE req[c]]
    /\ UNCHANGED <<client, handler, task, iov, co, run, hist, nops>>

\* The fd is writable and the reactor calls nfs_process_write:
\* nfs_service(POLLOUT) sends the queued requests S, then nfs_set_events.
nfs_process_write(S) ==
    /\ run.svc = "none"
    /\ handler.io_write
    /\ S \subseteq OutQ
    /\ S # {} \/ OutQ = {}
    /\ LET rq == [c \in Tasks |->
                    IF c \in S THEN [req[c] EXCEPT !.state = "waitq"] ELSE req[c]]
           se == nfs_set_events(client, handler, nfs_which_events(rq))
       IN /\ req' = rq
          /\ client' = se.client
          /\ handler' = se.handler
    /\ UNCHANGED <<task, iov, co, run, hist, nops>>

\* the reactor runs a scheduled bottom half, outside every fd handler
BottomHalf(c) ==
    /\ run.svc = "none"
    /\ task[c].bh = "scheduled"
    /\ nfs_co_generic_bh_cb(c)

\* ----------------------------------------------------------- specification
\* no call is at its return statement
Quiet == main.pc # "returned" /\ \A c \in Co : co[c].pc # "returned"

\* The call of coroutine c returns to its caller, in the same turn of the
\* thread that reached the return statement: the NFSRPC and the frame are
\* gone, the caller has the result and the coroutine can be called again.
Return(c) ==
    /\ co[c].pc = "returned"
    /\ co' = [co EXCEPT ![c] = IdleCo]
    /\ task' = [task EXCEPT ![c] = NullTask]
    /\ iov' = [iov EXCEPT ![c] = <<>>]
    /\ req' = [req EXCEPT ![c] = NoReq]
    /\ hist' = [hist EXCEPT ![c] = NoHist]
    /\ UNCHANGED <<client, handler, run, nops, main, bs>>

Returns == \E c \in Co : Return(c)

CallRead ==
    \E c \in Co, s \in 0 .. MaxSector, n \in 1 .. MaxNbSectors, rc \in {0, -1} :
        /\ Quiet /\ CanCall(c) /\ nfs_co_readv(c, s, n, rc)
        /\ UNCHANGED <<main, bs>>

CallWrite ==
    \E c \in Co, s \in 0 .. MaxSector, n \in 1 .. MaxNbSectors, rc \in {0, -1} :
        /\ Quiet /\ CanCall(c) /\ nfs_co_writev(c, s, n, rc)
        /\ UNCHANGED <<main, bs>>

CallFlush ==
    \E c \in Co, rc \in {0, -1} :
        /\ Quiet /\ CanCall(c) /\ nfs_co_flush(c, rc)
        /\ UNCHANGED <<main, bs>>

AnyStatus == -13 .. (MaxNbSectors * BDRV_SECTOR_SIZE + 1)

ProcessRead ==
    \E c \in Tasks, status \in AnyStatus :
        Quiet /\ nfs_process_read(c, status) /\ UNCHANGED <<main, bs>>

ServiceNext ==
    \E c \in Tasks, status \in AnyStatus :
        Quiet /\ nfs_service_next(c, status) /\ UNCHANGED <<main, bs>>

Callback == \E c \in Tasks : Quiet /\ nfs_co_generic_cb(c) /\ bs' = bs

ProcessReadReturn ==
    Quiet /\ nfs_process_read_return /\ UNCHANGED <<main, bs>>

ProcessWrite ==
    \E S \in SUBSET Tasks :
        Quiet /\ nfs_process_write(S) /\ UNCHANGED <<main, bs>>

BottomHalves ==
    \E c \in Tasks : Quiet /\ BottomHalf(c) /\ UNCHANGED <<main, bs>>

Call == CallRead \/ CallWrite \/ CallFlush

Reactor ==
    ProcessRead \/ ServiceNext \/ Callback \/ ProcessReadReturn \/ ProcessWrite

Next == Call \/ Reactor \/ BottomHalves \/ Returns

Spec == Init /\ [][Next]_vars

\* The calls of the specification with fairness: the byte range of a call
\* does not enter the scheduling, so they all address the first sector.
CallReadFirst ==
    \E c \in Co, rc \in {0, -1} :
        /\ Quiet /\ CanCall(c) /\ nfs_co_readv(c, 0, 1, rc)
        /\ UNCHANGED <<main, bs>>

CallWriteFirst ==
    \E c \in Co, rc \in {0, -1} :
        /\ Quiet /\ CanCall(c) /\ nfs_co_writev(c, 0, 1, rc)
        /\ UNCHANGED <<main, bs>>

FairNext ==
    CallReadFirst \/ CallWriteFirst \/ CallFlush \/ Reactor \/ BottomHalves
        \/ Returns

\* the reactor runs ready handlers and scheduled bottom halves, the engine
\* answers what it has sent, and a call that reached its return returns;
\* nothing obliges a caller to make a call
FairSpec ==
    /\ Init
    /\ [][FairNext]_vars
    /\ WF_vars(Reactor)
    /\ WF_vars(BottomHalves)
    /\ WF_vars(Returns)

\* ----------------------------------------------------------- open, create, close
\* names and values of the parameters of a URL
Names ==
    {Name_uid, Name_gid, Name_tcp_syncnt, <<"u", "i", "d", "x">>,
     <<"f", "o", "o">>}
Values == {NoValue, <<"1", "0">>, <<"7">>}
Params == [name : Names, value : Values]
Queries == UNION {[1 .. n -> Params] : n \in 0 .. MaxParams}
Urls ==
    {NoUrl, [NoUrl EXCEPT !.parsed = TRUE]}
        \cup {[parsed |-> TRUE, slash |-> TRUE, query |-> q] : q \in Queries}

\* the least st_size whose number of sectors is no int
HugeSize == (2 ^ (IntBits - 1)) * BDRV_SECTOR_SIZE
\* the st_size the server can report
FileSizes == {0, 1, BDRV_SECTOR_SIZE, BDRV_SECTOR_SIZE + 1, HugeSize}
\* the option size of a create
CreateSizes == {0, BDRV_SECTOR_SIZE + 1}

\* the number of library calls that fail in e
Failures(e) ==
    (IF e.opts THEN 0 ELSE 1) + (IF e.init THEN 0 ELSE 1)
        + (IF e.mount < 0 THEN 1 ELSE 0) + (IF e.open < 0 THEN 1 ELSE 0)
        + (IF e.fstat < 0 THEN 1 ELSE 0) + (IF e.ftruncate < 0 THEN 1 ELSE 0)

\* The answers of the library calls: all succeed, or one of them fails (what
\* the later ones would have answered is then of no interest).
Envs ==
    {e \in [opts : BOOLEAN, init : BOOLEAN, mount : {0, -EIO},
            open : {0, -13}, fstat : {0, -EIO}, st_size : FileSizes,
            reg : BOOLEAN, ftruncate : {0, -EIO}] :
        \/ Failures(e) = 0
        \/ Failures(e) = 1 /\ e.st_size = 0 /\ e.reg}

\* the main thread is in the event loop and no call is at its return
MainCanCall == Quiet /\ run.svc = "none" /\ main.pc = "idle"

\* the block layer calls nfs_file_open on a BlockDriverState with a zeroed
\* opaque; bs.drv stays set if it returns no error
FileOpen ==
    /\ MainCanCall
    /\ ~bs.drv
    /\ \E url \in Urls, rdwr \in BOOLEAN, env \in Envs :
        /\ \E r \in {nfs_file_open(World(ZeroClient, handler), bs, url, rdwr,
                                    env)} :
              /\ client' = r.w.client
              /\ handler' = r.w.handler
              /\ bs' = [r.bs EXCEPT !.drv = (r.ret >= 0)]
              /\ main' = [IdleMain EXCEPT !.pc = "returned", !.op = "open",
                                          !.url = url, !.rdwr = rdwr,
                                          !.env = env, !.ret = r.ret,
                                          !.errp = r.w.errp, !.log = r.w.log,
                                          !.closes = r.w.closes,
                                          !.cl = r.w.client]
        /\ UNCHANGED <<task, iov, co, req, run, hist, nops>>

\* nfs_file_create works on an NFSClient of its own; it is called while the
\* device is not open
FileCreate ==
    /\ MainCanCall
    /\ ~bs.drv
    /\ \E url \in Urls, size \in CreateSizes, env \in Envs :
        /\ \E r \in {nfs_file_create(url, size, env)} :
              main' = [IdleMain EXCEPT !.pc = "returned", !.op = "create",
                                      !.url = url, !.size = size,
                                      !.env = env, !.ret = r.ret,
                                      !.errp = r.w.errp, !.log = r.w.log,
                                      !.closes = r.w.closes,
                                      !.cl = r.w.client]
        /\ UNCHANGED <<client, handler, task, iov, co, req, run, hist, nops,
                       bs>>

\* nfs_file_close; the block layer calls it on an open BlockDriverState once
\* no request is in flight
FileClose ==
    /\ MainCanCall
    /\ bs.drv
    /\ \A c \in Co : co[c].pc = "idle"
    /\ LET w == nfs_client_close(World(client, handler))
       IN /\ client' = w.client
          /\ handler' = w.handler
          /\ main' = [IdleMain EXCEPT !.pc = "returned", !.op = "close",
                                      !.log = w.log, !.closes = w.closes,
                                      !.cl = w.client]
    /\ bs' = [bs EXCEPT !.drv = FALSE]
    /\ UNCHANGED <<task, iov, co, req, run, hist, nops>>

\* the BlockDriverState before the block layer calls nfs_file_open
NoBs == [drv |-> FALSE, total_sectors |-> 0]

\* The call of the main thread returns to its caller: its frame is gone.
\* After a close, and after an open that returned an error, the block layer
\* frees the NFSClient (bs->opaque); the next open is that of a new
\* BlockDriverState with a zeroed NFSClient.
MainReturn ==
    /\ main.pc = "returned"
    /\ main' = IdleMain
    /\ task' = [task EXCEPT ![MainTask] = NullTask]
    /\ req' = [req EXCEPT ![MainTask] = NoReq]
    /\ hist' = [hist EXCEPT ![MainTask] = NoHist]
    /\ IF ~bs.drv
       THEN /\ client' = ZeroClient
            /\ bs' = NoBs
            /\ nops' = 0
       ELSE UNCHANGED <<client, bs, nops>>
    /\ UNCHANGED <<handler, iov, co, run>>

\* ----------------------------------------------------------- allocated size
\* mutant: the number of blocks is returned
nfs_get_allocated_file_size_tail_blocks(t, st) ==
    IF t.status < 0 THEN t.status ELSE st.st_blocks

\* nfs_get_allocated_file_size after its wait loop
nfs_get_allocated_file_size_tail(t, st) ==
    IF t.status < 0 THEN t.status ELSE st.st_blocks * st.st_blksize

\* The main thread, with main record m and task t, runs from the head of the
\* wait loop of nfs_get_allocated_file_size until it is inside
\* qemu_aio_wait or returns.  rq: the engine's requests at that time.
MainWaitLoop(m, t, rq) ==
    IF t.complete = 0
    THEN LET se == nfs_set_events(client, handler, nfs_which_events(rq)) IN
         /\ client' = se.client
         /\ handler' = se.handler
         /\ main' = [m EXCEPT !.pc = "aio_wait"]
    ELSE /\ UNCHANGED <<client, handler>>
         /\ main' = [m EXCEPT !.pc = "returned",
                              !.ret = nfs_get_allocated_file_size_tail(t, m.st)]

\* nfs_get_allocated_file_size(bs); rc: what nfs_fstat_async returns, data:
\* the metadata the server will answer with
nfs_get_allocated_file_size(rc, data) ==
    LET t == [NullTask EXCEPT !.st = TRUE]
        m == [IdleMain EXCEPT !.op = "allocated_size"]
        rq == [req EXCEPT ![MainTask] = [NewReq(0, 0) EXCEPT !.data = data]]
    IN
    /\ task' = [task EXCEPT ![MainTask] = t]
    /\ hist' = [hist EXCEPT ![MainTask] = NoHist]
    /\ nops' = nops + 1
    /\ IF rc # 0
       THEN /\ req' = req
            /\ main' = [m EXCEPT !.pc = "returned", !.ret = -ENOMEM]
            /\ UNCHANGED <<client, handler>>
       ELSE /\ req' = rq
            /\ MainWaitLoop(m, t, rq)
    /\ UNCHANGED <<iov, co, run, bs>>

\* qemu_aio_wait returns to the wait loop, after the reactor has run
\* handlers and bottom halves
qemu_aio_wait_return ==
    /\ main.pc = "aio_wait"
    /\ run.svc = "none"
    /\ MainWaitLoop(main, task[MainTask], req)
    /\ UNCHANGED <<task, iov, co, req, run, hist, nops, bs>>

AllocatedSize ==
    /\ MainCanCall
    /\ bs.drv /\ client.context /\ client.fh
    /\ nops < MaxOps
    /\ \E rc \in {0, -1}, data \in Stats : nfs_get_allocated_file_size(rc, data)

AioWaitReturn == Quiet /\ qemu_aio_wait_return

\* nfs_file_truncate(bs, offset): nfs_ftruncate is a blocking call of the
\* library, which runs the engine itself until the reply to its own request
\* has come.  Its request is queued behind those already queued, so these
\* are sent first; replies to other requests are left to the next
\* nfs_service(POLLIN).  rc: what nfs_ftruncate returns.
\* mutant: truncate stores the mask the engine wants after it
nfs_file_truncate_mask(offset, rc) ==
    /\ req' = [c \in Tasks |->
                 IF req[c].state = "outq"
                 THEN [req[c] EXCEPT !.state = "waitq"] ELSE req[c]]
    /\ main' = [IdleMain EXCEPT !.pc = "returned", !.op = "truncate",
                                !.size = offset, !.ret = rc,
                                !.log = <<LogCall("nfs_ftruncate", offset)>>,
                                !.cl = client]
    /\ client' = [client EXCEPT !.events = nfs_which_events(req')]
    /\ UNCHANGED <<handler, task, iov, co, run, hist, nops, bs>>

nfs_file_truncate(offset, rc) ==
    /\ req' = [c \in Tasks |->
                 IF req[c].state = "outq"
                 THEN [req[c] EXCEPT !.state = "waitq"] ELSE req[c]]
    /\ main' = [IdleMain EXCEPT !.pc = "returned", !.op = "truncate",
                                !.size = offset, !.ret = rc,
                                !.log = <<LogCall("nfs_ftruncate", offset)>>,
                                !.cl = client]
    /\ UNCHANGED <<client, handler, task, iov, co, run, hist, nops, bs>>

Truncate ==
    /\ MainCanCall
    /\ bs.drv /\ client.context /\ client.fh
    /\ \E offset \in {0, BDRV_SECTOR_SIZE}, rc \in {0, -EIO} :
          nfs_file_truncate(offset, rc)

\* the device is opened, used by flush calls, and closed; files are created
LifeNext ==
    FileOpen \/ FileCreate \/ FileClose \/ MainReturn \/ CallFlush \/ Reactor
        \/ BottomHalves \/ Returns

LifeInit == Start(ZeroClient, NoBs, IdleMain)

LifeSpec == LifeInit /\ [][LifeNext]_vars

\* Every operation of the driver on one device: it is opened, read, written
\* and flushed by one coroutine, truncated and asked for its allocated size
\* by the main thread, and closed.
CallOne ==
    \E rc \in {0, -1} :
        /\ Quiet /\ CanCall(1)
        /\ \/ nfs_co_readv(1, 0, 1, rc)
           \/ nfs_co_writev(1, 0, 1, rc)
           \/ nfs_co_flush(1, rc)
        /\ UNCHANGED <<main, bs>>

DevNext ==
    FileOpen \/ FileClose \/ MainReturn \/ CallOne \/ Reactor \/ BottomHalves
        \/ Returns \/ AllocatedSize \/ AioWaitReturn \/ Truncate

DevSpec == LifeInit /\ [][DevNext]_vars

\* the open device is used by coroutines and asked for its allocated size
MainNext ==
    CallReadFirst \/ CallWriteFirst \/ CallFlush \/ Reactor \/ BottomHalves
        \/ Returns \/ AllocatedSize \/ AioWaitReturn \/ MainReturn

MainSpec == Init /\ [][MainNext]_vars

\* ----------------------------------------------------------- properties
\* what the callback leaves in task.status for the status the engine passed
ExpectStatus(c) ==
    IF co[c].op = "read" /\ req[c].status > req[c].len THEN -EIO ELSE req[c].status

\* what the callback leaves in the buffer of the call of c
ExpectIov(c) ==
    [i \in 1 .. Len(iov[c]) |->
        IF co[c].op = "read"
        THEN (IF i <= req[c].status /\ req[c].status <= req[c].len
              THEN FileByte(req[c].off + i - 1) ELSE 255)
        ELSE 170]

\* C1: a coroutine is entered, and leaves the yield of its wait loop, only in
\* a step of the bottom half of its own task, taken while the thread is in no
\* fd handler and no engine callback; the callback itself only schedules.
C1_NoSyncResume ==
    [][\A c \in Co :
          /\ (co[c].pc = "yield" /\ co'[c] # co[c])
                => hist'[c].entered = hist[c].entered + 1
          /\ (hist'[c].entered > hist[c].entered)
                => /\ run.svc = "none"
                   /\ run.cb = NoCo
                   /\ task[c].bh = "scheduled"
                   /\ task'[c].bh = "deleted"]_vars

\* C1 witness: a call returned after its coroutine was entered once, from the
\* bottom half, with the thread outside the engine
C1_Witness ==
    \E c \in Co :
        /\ co[c].pc = "returned"
        /\ hist[c].entered = 1
        /\ task[c].bh = "deleted"
        /\ run.svc = "none"

\* C2: in no state is a task's completion flag set while the callback that
\* sets it has not yet written the status (line 108) or the buffer (line 109).
C2_StatusBeforeComplete ==
    \A c \in Co :
        task[c].complete = 1 => ~(run.cb = c /\ run.line \in {108, 109})

\* C3: when a coroutine leaves its wait loop (it saw the flag set), the
\* callback of its task has run to its end and the task's status and the
\* buffer hold what the callback makes of the engine's status and data.
C3_ObservedAfterWritten ==
    [][\A c \in Co :
          (co[c].pc = "yield" /\ co'[c].pc = "returned")
             => /\ task[c].complete = 1
                /\ req[c].state = "done"
                /\ run.cb # c
                /\ task[c].status = ExpectStatus(c)
                /\ iov[c] = ExpectIov(c)]_vars

\* C3 witness: a read returned whose buffer the callback had filled
C3_Witness ==
    \E c \in Co :
        /\ co[c].pc = "returned"
        /\ co[c].op = "read"
        /\ hist[c].entered = 1
        /\ req[c].status = req[c].len
        /\ iov[c] = FileData(req[c].off, req[c].len)

\* the buffer a read of len bytes at off returns with, for the engine's status s
ReadResult(off, len, s) ==
    [i \in 1 .. len |->
        IF s < 0 \/ s > len THEN 255
        ELSE IF i <= s THEN FileByte(off + i - 1) ELSE 0]

\* C4: a read returns with the data of its own request only; a step of the
\* callback of task c changes no other task and no other buffer; a step of the
\* bottom half of task c enters coroutine c and changes no other coroutine.
C4_NoCrossTalk ==
    /\ [](\A c \in Co :
            (co[c].op = "read" /\ co[c].pc = "returned" /\ req[c].state = "done")
               => iov[c] = ReadResult(co[c].sector_num * BDRV_SECTOR_SIZE,
                                      co[c].nb_sectors * BDRV_SECTOR_SIZE,
                                      req[c].status))
    /\ [][\A c, d \in Co :
            d # c =>
              /\ run.cb = c => (task'[d] = task[d] /\ iov'[d] = iov[d])
              /\ hist'[c].ran > hist[c].ran
                   => (co'[d] = co[d] /\ iov'[d] = iov[d]
                       /\ hist'[c].entered > hist[c].entered)]_vars

\* C4 witness: two reads of different sectors in flight together, both
\* completed by the engine, each buffer holding its own sector
C4_Witness ==
    /\ co[1].op = "read" /\ co[2].op = "read"
    /\ co[1].sector_num # co[2].sector_num
    /\ co[1].pc = "returned" /\ co[2].pc = "yield"
    /\ req[1].state = "done" /\ req[2].state = "done"
    /\ task[2].bh = "scheduled"
    /\ iov[1] = FileData(req[1].off, req[1].len)
    /\ iov[2] = FileData(req[2].off, req[2].len)

\* C5: per call, the callback schedules one bottom half, which runs once,
\* deletes its handle and enters the call's own coroutine, once.
C5_OneWakeup ==
    \A c \in Co :
        /\ hist[c].sched <= 1
        /\ hist[c].ran <= hist[c].sched
        /\ hist[c].entered = hist[c].ran
        /\ (req[c].state = "done" /\ run.cb # c) => hist[c].sched = 1
        /\ (task[c].bh = "scheduled") <=> (hist[c].sched = 1 /\ hist[c].ran = 0)
        /\ hist[c].ran = 1 => (task[c].bh = "deleted" /\ co[c].pc = "returned")
        /\ (co[c].pc = "returned" /\ req[c].state = "done") => hist[c].entered = 1

\* C5 witness: a completed call returned, one bottom half scheduled and run
C5_Witness ==
    \E c \in Co :
        /\ co[c].pc = "returned"
        /\ req[c].state = "done"
        /\ hist[c] = [sched |-> 1, ran |-> 1, entered |-> 1]
        /\ task[c].bh = "deleted"

\* C6: under the reactor's and the engine's fairness, a call suspended in its
\* wait loop eventually reaches its return.
C6_EventuallyReturns ==
    \A c \in Co : (co[c].pc = "yield") ~> (co[c].pc = "returned")

\* C6 witness: a call that was suspended returned, the write interest it
\* needed registered and dropped again
C6_Witness ==
    \E c \in Co :
        /\ co[c].pc = "returned"
        /\ hist[c].entered = 1
        /\ client.events = {POLLIN}
        /\ handler = qemu_aio_set_fd_handler(TRUE, FALSE)

\* C7: a read the engine completed with 0 <= count < requested length
\* returns 0, its buffer holding the engine's count bytes, then zeros.
C7_ShortReadZeroPadded ==
    \A c \in Co :
        (/\ co[c].op = "read" /\ co[c].pc = "returned" /\ req[c].state = "done"
         /\ 0 <= req[c].status
         /\ req[c].status < co[c].nb_sectors * BDRV_SECTOR_SIZE)
        => /\ co[c].ret = 0
           /\ Len(iov[c]) = co[c].nb_sectors * BDRV_SECTOR_SIZE
           /\ \A i \in 1 .. Len(iov[c]) :
                 iov[c][i] = IF i <= req[c].status
                             THEN FileByte(co[c].sector_num * BDRV_SECTOR_SIZE + i - 1)
                             ELSE 0

\* C7 witness: a read of the second sector returned after the engine
\* delivered one byte
C7_Witness ==
    \E c \in Co :
        /\ co[c].op = "read" /\ co[c].pc = "returned" /\ req[c].state = "done"
        /\ co[c].sector_num = 1
        /\ req[c].status = 1
        /\ co[c].ret = 0
        /\ iov[c][1] = FileByte(BDRV_SECTOR_SIZE)
        /\ \A i \in 2 .. Len(iov[c]) : iov[c][i] = 0

\* C8: a read the engine completed with a count above the buffer's size
\* copies nothing, has status -EIO in its task and returns -EIO.
C8_OversizeReadIsEIO ==
    \A c \in Co :
        (/\ co[c].op = "read" /\ co[c].pc = "returned" /\ req[c].state = "done"
         /\ req[c].status > Len(iov[c]))
        => /\ co[c].ret = -EIO
           /\ task[c].status = -EIO
           /\ \A i \in 1 .. Len(iov[c]) : iov[c][i] = 255

\* C8 witness: a read returned -EIO after the engine reported one byte more
\* than the buffer holds
C8_Witness ==
    \E c \in Co :
        /\ co[c].op = "read" /\ co[c].pc = "returned" /\ req[c].state = "done"
        /\ req[c].status = Len(iov[c]) + 1
        /\ co[c].ret = -EIO

\* C9: a write of N bytes returns 0 iff the engine's status is N, the status
\* itself when it is negative, and -EIO for any other count.
C9_WriteExactCount ==
    \A c \in Co :
        (co[c].op = "write" /\ co[c].pc = "returned" /\ req[c].state = "done")
        => LET N == co[c].nb_sectors * BDRV_SECTOR_SIZE
               s == req[c].status
           IN /\ (co[c].ret = 0) <=> (s = N)
              /\ s < 0 => co[c].ret = s
              /\ (s >= 0 /\ s # N) => co[c].ret = -EIO

\* C9 witness: a write returned -EIO after the engine acknowledged one byte
\* more than was written
C9_Witness ==
    \E c \in Co :
        /\ co[c].op = "write" /\ co[c].pc = "returned" /\ req[c].state = "done"
        /\ req[c].status = co[c].nb_sectors * BDRV_SECTOR_SIZE + 1
        /\ co[c].ret = -EIO

\* C10: flush returns the status the engine passed to the callback, and the
\* task holds that status.
C10_FlushStatusVerbatim ==
    \A c \in Co :
        (co[c].op = "flush" /\ co[c].pc = "returned" /\ req[c].state = "done")
        => /\ co[c].ret = req[c].status
           /\ task[c].status = req[c].status

\* C10 witness: a flush returned the positive status the engine passed
C10_Witness ==
    \E c \in Co :
        /\ co[c].op = "flush" /\ co[c].pc = "returned" /\ req[c].state = "done"
        /\ req[c].status > 0
        /\ co[c].ret = req[c].status

\* ------------------------------------------- properties of open, create, close
\* the library call f is in the log of the main thread's call
Called(f) == \E i \in DOMAIN main.log : main.log[i].f = f

\* the places of the calls of f in the log
CallsOf(f) == {i \in DOMAIN main.log : main.log[i].f = f}

\* a parameter that the URL syntax of the driver does not allow
BadParam(p) ==
    p.value = NoValue \/ p.name \notin {Name_uid, Name_gid, Name_tcp_syncnt}

\* the client is closed: no context, no file handle, no events
IsClosed(cl) == ~cl.context /\ ~cl.fh /\ cl.events = {}

\* the registration of the fd of the client an open or create worked on
MainHandler ==
    IF main.op = "create"
    THEN main.closes[Len(main.closes)].hafter
    ELSE handler

\* an open or create has returned whose URL was parsed and whose context was
\* made, so that the parameters were looked at
ParamsChecked ==
    /\ main.pc = "returned"
    /\ main.op \in {"open", "create"}
    /\ main.env.opts /\ main.url.parsed /\ main.url.slash /\ main.env.init

\* C11: an open whose URL has a parameter without a value, or with a name
\* other than uid, gid and tcp-syncnt, returns a negative value with the
\* Error of the parameter check set, has not called nfs_mount and leaves the
\* client without context and file handle.
C11_BadParameterFails ==
    (ParamsChecked
        /\ \E i \in DOMAIN main.url.query : BadParam(main.url.query[i]))
    => /\ main.ret < 0
       /\ main.errp \in {"Value for NFS parameter expected",
                          "Unknown NFS parameter name"}
       /\ ~Called("nfs_mount")
       /\ ~main.cl.context /\ ~main.cl.fh

\* a step of an open failed, judged by what was passed in and by what the
\* library calls answered
StepFailed ==
    \/ ~main.env.opts
    \/ ~main.url.parsed \/ ~main.url.slash
    \/ ~main.env.init
    \/ \E i \in DOMAIN main.url.query : BadParam(main.url.query[i])
    \/ main.env.mount < 0 \/ main.env.open < 0 \/ main.env.fstat < 0

\* C12: an open or create that returns a negative value leaves the client
\* closed (no context, no file handle, no events) and its fd without handler,
\* and an open returns a negative value only if one of its steps failed (URL
\* parse, context init, parameter check, mount, open/create, metadata query).
C12_FailedOpenLeavesClosed ==
    (main.pc = "returned" /\ main.op \in {"open", "create"} /\ main.ret < 0)
    => /\ IsClosed(main.cl)
       /\ MainHandler = qemu_aio_set_fd_handler(FALSE, FALSE)
       /\ main.op = "open" => StepFailed

\* the library calls of a close of a client with context, with or without
\* file handle
CloseCalls(withFh) ==
    (IF withFh THEN <<LogCall("nfs_close", 0)>> ELSE <<>>)
        \o <<LogCall("qemu_aio_set_fd_handler", 0),
             LogCall("nfs_destroy_context", 0)>>

\* C13: every run of nfs_client_close, on a client with context and file
\* handle, calls nfs_close, unregisters the fd and destroys the context, once
\* each; on one with context and no file handle it leaves out nfs_close; on
\* an all-zero client it makes no call and leaves the registration alone.
\* The client is all-zero afterwards, and a second close finds it so and
\* changes nothing.
C13_CloseIdempotent ==
    main.pc = "returned" =>
        \A i \in DOMAIN main.closes :
            LET r == main.closes[i] IN
            /\ r.after = ZeroClient
            /\ IF r.before.context
               THEN /\ r.calls = CloseCalls(r.before.fh)
                    /\ r.hafter = qemu_aio_set_fd_handler(FALSE, FALSE)
               ELSE /\ r.calls = <<>>
                    /\ r.hafter = r.hbefore
            /\ i > 1 => /\ r.before = ZeroClient
                        /\ r.calls = <<>>
                        /\ r.after = r.before
                        /\ r.hafter = r.hbefore

\* a create whose open failed at the metadata query: the close at the label
\* fail finds context and file handle, the close of nfs_file_create is the
\* second one
C13_Witness ==
    /\ main.pc = "returned"
    /\ Len(main.closes) = 2
    /\ main.closes[1].before.context /\ main.closes[1].before.fh
    /\ Len(main.closes[1].calls) = 3
    /\ main.closes[2].calls = <<>>

\* the value the failed step of an open leaves in ret, by the Error it set
OpenError ==
    CASE main.errp = "Failed to mount nfs share" -> main.env.mount
      [] main.errp = "Failed to create file" -> main.env.open
      [] main.errp = "Failed to open file" -> main.env.open
      [] main.errp = "Failed to fstat file" -> main.env.fstat
      [] OTHER -> -EINVAL

\* C14: nfs_file_create opens with O_CREAT, then resizes to the requested
\* size, then closes, in this order.  On every path the client ends closed,
\* the context it made is destroyed once and the file handle it got is
\* closed once.  It returns the error of the open if the open failed (and
\* then does not resize), and the result of the resize otherwise.
C14_CreateThenResizeThenClose ==
    (main.pc = "returned" /\ main.op = "create")
    => /\ IsClosed(main.cl)
       /\ Cardinality(CallsOf("nfs_destroy_context"))
            = (IF Called("nfs_init_context") /\ main.env.init THEN 1 ELSE 0)
       /\ Cardinality(CallsOf("nfs_close"))
            = (IF Called("nfs_creat") /\ main.env.open >= 0 THEN 1 ELSE 0)
       /\ IF main.errp # "NULL"
          THEN /\ main.ret = OpenError
               /\ main.ret < 0
               /\ ~Called("nfs_ftruncate")
          ELSE /\ \E i, j, k \in DOMAIN main.log :
                    /\ CallsOf("nfs_creat") = {i}
                    /\ CallsOf("nfs_ftruncate") = {j}
                    /\ CallsOf("nfs_close") = {k}
                    /\ i < j /\ j < k
                    /\ main.log[j].a = main.size
               /\ main.ret = main.env.ftruncate

\* C18: an open all of whose steps succeed gives the device the size
\* st_size / BDRV_SECTOR_SIZE rounded up, in sectors: nfs_file_open returns
\* success and bs.total_sectors is that non-negative number, for every
\* st_size the metadata query can report, those whose sector count is no
\* 32-bit int included.
C18_SizeInSectorsRoundedUp ==
    (main.pc = "returned" /\ main.op = "open" /\ main.env.opts
        /\ main.errp = "NULL")
    => /\ main.ret = 0
       /\ bs.drv
       /\ bs.total_sectors >= 0
       /\ bs.total_sectors * BDRV_SECTOR_SIZE >= main.env.st_size
       /\ (bs.total_sectors - 1) * BDRV_SECTOR_SIZE < main.env.st_size

\* the number a decimal parameter value of the model stands for
Decimal(v) == IF v = <<"1", "0">> THEN 10 ELSE 7

\* C19: an open whose parameters are a uid and a gid with decimal values, and
\* whose mount, open and metadata query succeed, succeeds, and has called
\* nfs_set_uid and nfs_set_gid with these values before it called nfs_mount.
C19_UidGidAppliedBeforeMount ==
    \A n1, n2 \in {Name_uid, Name_gid} :
        (/\ ParamsChecked
         /\ Failures(main.env) = 0
         /\ n1 # n2
         /\ Len(main.url.query) = 2
         /\ main.url.query[1].name = n1 /\ main.url.query[1].value # NoValue
         /\ main.url.query[2].name = n2 /\ main.url.query[2].value # NoValue)
        => /\ main.ret >= 0
           /\ main.op = "open" => bs.drv
           /\ \E u, g, m \in DOMAIN main.log :
                /\ CallsOf("nfs_set_uid") = {u}
                /\ CallsOf("nfs_set_gid") = {g}
                /\ CallsOf("nfs_mount") = {m}
                /\ u < m /\ g < m
                /\ main.log[u].a =
                     Decimal(main.url.query[IF n1 = Name_uid THEN 1 ELSE 2].value)
                /\ main.log[g].a =
                     Decimal(main.url.query[IF n1 = Name_gid THEN 1 ELSE 2].value)

\* ------------------------------------------- properties of the main thread
\* C15: nfs_get_allocated_file_size, when the engine completes its query
\* with status 0, returns st_blocks * st_blksize of the metadata the engine
\* delivered.  Its task has no coroutine and never gets a bottom half; the
\* completion callback of its task resumes no coroutine; and it returns from
\* its wait loop only once the task is complete, each wait inside
\* qemu_aio_wait following a run of nfs_set_events.
C15_AllocatedSizeWithoutCoroutine ==
    /\ [](main.op = "allocated_size" =>
            /\ task[MainTask].co = NoCo
            /\ task[MainTask].bh = "NULL"
            /\ hist[MainTask] = NoHist
            /\ (main.pc = "returned" /\ req[MainTask].state = "done"
                    /\ req[MainTask].status = 0)
               => main.ret = req[MainTask].data.st_blocks
                                * req[MainTask].data.st_blksize)
    /\ [][/\ run.cb = MainTask => co' = co
          /\ (main.pc = "aio_wait" /\ main'.pc = "returned")
             => task[MainTask].complete = 1
          /\ (main.pc = "idle" /\ main'.pc = "aio_wait")
             => /\ task'[MainTask].complete = 0
                /\ client'.events = nfs_which_events(req')
          /\ (main.pc = "aio_wait" /\ main'.pc = "aio_wait"
                /\ run.svc = "none" /\ run'.svc = "none")
             => client'.events = nfs_which_events(req')]_vars

\* the query has returned a size that is not 0 while a coroutine is suspended
C15_Witness ==
    /\ main.pc = "returned" /\ main.op = "allocated_size"
    /\ req[MainTask].state = "done" /\ req[MainTask].status = 0
    /\ main.ret > 0
    /\ \E c \in Co : co[c].pc = "yield"

\* the registration that belongs to a mask
HandlersFor(ev) == [io_read |-> POLLIN \in ev, io_write |-> POLLOUT \in ev]

\* the step runs nfs_set_events: nfs_process_read returns, nfs_process_write
\* has sent requests, a coroutine reaches its yield, or the main thread
\* enters qemu_aio_wait
SetEventsRuns ==
    \/ run.svc = POLLIN /\ run'.svc = "none"
    \/ \E c \in Tasks : req[c].state = "outq" /\ req'[c].state = "waitq"
    \/ \E c \in Co : co[c].pc # "yield" /\ co'[c].pc = "yield"
    \/ main.pc = "idle" /\ main'.pc = "aio_wait"

\* C16: after a run of nfs_set_events the stored mask is what the engine
\* wants at that time.  If that differs from the mask stored before, the fd
\* is registered with the read handler exactly if POLLIN is wanted and the
\* write handler exactly if POLLOUT is wanted; if it does not differ, the
\* registration is as it was.  No other step of the device in use changes
\* mask or registration.
C16_MaskFollowsEngine ==
    [][IF SetEventsRuns
       THEN /\ client'.events = nfs_which_events(req')
            /\ IF nfs_which_events(req') # client.events
               THEN handler' = HandlersFor(nfs_which_events(req'))
               ELSE handler' = handler
       ELSE client'.events = client.events /\ handler' = handler]_vars

\* the write handler has sent what was queued: the mask went from read and
\* write to read only while a request waits for its reply
C16_Witness ==
    /\ run.svc = "none"
    /\ client.events = {POLLIN}
    /\ handler = HandlersFor({POLLIN})
    /\ \E c \in Tasks : req[c].state = "waitq"

\* C17: when submitting the request fails (the engine has no request of the
\* call afterwards), nfs_co_readv, nfs_co_writev, nfs_co_flush and
\* nfs_get_allocated_file_size return -ENOMEM in the step that called them:
\* the caller is neither at a yield nor inside qemu_aio_wait, no bottom half
\* exists for the task, mask and registration are as before, and the
\* temporary buffer of a write is freed.
C17_SubmitFailureReturnsAtOnce ==
    [][/\ \A c \in Co :
            (co[c].pc = "idle" /\ co'[c].pc # "idle"
                /\ req'[c].state = "none")
            => /\ co'[c].pc = "returned"
               /\ co'[c].ret = -ENOMEM
               /\ task'[c].bh = "NULL"
               /\ hist'[c] = NoHist
               /\ co'[c].op = "write" => co'[c].buf = "freed"
               /\ co'[c].op # "write" => co'[c].buf = "NULL"
               /\ client' = client /\ handler' = handler
       /\ (main.pc = "idle" /\ main'.op = "allocated_size"
              /\ req'[MainTask].state = "none")
          => /\ main'.pc = "returned"
             /\ main'.ret = -ENOMEM
             /\ task'[MainTask].bh = "NULL"
             /\ hist'[MainTask] = NoHist
             /\ client' = client /\ handler' = handler]_vars

\* a write whose submission failed has returned while the query of the main
\* thread is in flight
C17_Witness ==
    /\ \E c \in Co :
          /\ co[c].pc = "returned" /\ co[c].op = "write"
          /\ req[c].state = "none"
          /\ co[c].ret = -ENOMEM /\ co[c].buf = "freed"
    /\ main.pc = "aio_wait"

\* C20: whenever the thread is in the event loop while a coroutine is
\* suspended at the yield of a wait loop or the main thread is inside
\* qemu_aio_wait, the stored mask is what the engine wants; and when
\* nfs_process_read or nfs_process_write returns, the stored mask is what
\* the engine wants after the nfs_service call it made.
C20_BridgeBeforeSuspendAndAfterService ==
    /\ []((/\ run.svc = "none"
           /\ \/ \E c \in Co : co[c].pc = "yield"
              \/ main.pc = "aio_wait")
          => client.events = nfs_which_events(req))
    /\ [][(\/ run.svc = POLLIN /\ run'.svc = "none"
           \/ \E c \in Tasks : req[c].state = "outq" /\ req'[c].state = "waitq")
          => client'.events = nfs_which_events(req')]_vars

\* the write handler has returned with nothing left to send while a
\* coroutine is suspended and the main thread is inside qemu_aio_wait
C20_Witness ==
    /\ run.svc = "none"
    /\ main.pc = "aio_wait"
    /\ \E c \in Co : co[c].pc = "yield" /\ req[c].state = "waitq"
    /\ req[MainTask].state = "waitq"
    /\ client.events = {POLLIN}

\* ----------------------------------------------------------- properties of the whole device
\* the step is one that runs nfs_set_events: nfs_process_read returns,
\* nfs_process_write runs (nothing but the engine, the mask and the
\* registration change), a coroutine reaches the yield of its wait loop, or
\* the main thread goes round the loop of nfs_get_allocated_file_size
EventBridgeStep ==
    \/ run.svc = POLLIN /\ run'.svc = "none"
    \/ /\ run' = run /\ main' = main /\ co' = co /\ task' = task
       /\ hist' = hist /\ bs' = bs
    \/ \E c \in Co : co[c].pc = "idle" /\ co'[c].pc = "yield"
    \/ main.pc \in {"idle", "aio_wait"} /\ main'.pc = "aio_wait"

\* C21: client.events changes only in steps that run nfs_set_events; no step
\* of read, write, flush, truncate, allocated_size, open or close changes it
\* in another way.
C21_MaskOnlyByEventBridge ==
    [][client'.events # client.events => EventBridgeStep]_vars

\* the step is nfs_file_close: nfs_client_close zeroes the whole NFSClient
CloseStep ==
    /\ main.pc = "idle" /\ main'.op = "close"
    /\ client' = ZeroClient

\* C21 (amended): client.events changes only in steps that run
\* nfs_set_events, which store the mask the engine wants, and in
\* nfs_file_close, whose memset clears it to zero without nfs_set_events;
\* read, write, flush, truncate, allocated_size and open change it only by
\* running nfs_set_events.
C21_MaskOnlyByBridgeOrClose ==
    [][client'.events # client.events
          => \/ EventBridgeStep /\ client'.events = nfs_which_events(req')
             \/ CloseStep /\ client'.events = {}]_vars

\* a close has returned that cleared the mask of a device that was used
C21_Witness ==
    /\ main.pc = "returned"
    /\ main.op = "close"
    /\ main.closes[1].before.events # {}
    /\ client.events = {}

\* ----------------------------------------------------------- properties of errors and buffers
\* C22: a read that the engine completed with a negative status returns that
\* status, and its buffer is as the caller passed it, from the completion to
\* the return: no byte has been copied into it and none has been zeroed.
C22_FailedReadLeavesBuffer ==
    \A c \in Co :
        (co[c].op = "read" /\ req[c].state = "done" /\ req[c].status < 0)
        => /\ \A i \in 1 .. Len(iov[c]) : iov[c][i] = 255
           /\ co[c].pc = "returned"
                 => (co[c].ret = req[c].status /\ task[c].status = req[c].status)

\* a read has returned the negative status of the engine
C22_Witness ==
    \E c \in Co :
        /\ co[c].op = "read" /\ co[c].pc = "returned" /\ req[c].state = "done"
        /\ req[c].status = -13
        /\ co[c].ret = -13
        /\ hist[c].entered = 1

\* C23: the buffer nfs_co_writev allocates is released once on every way out
\* of the call: it is allocated while the call runs or waits, released when
\* the call has returned (after a failed submission, a negative status, a
\* wrong count or the full count), never released twice, and the engine holds
\* no request that points to it once it is released.
C23_WriteBufferFreedOnce ==
    \A c \in Co :
        /\ co[c].buf # "invalid"
        /\ co[c].op # "write" => co[c].buf = "NULL"
        /\ co[c].op = "write"
              => /\ co[c].pc \in {"running", "yield"} => co[c].buf = "allocated"
                 /\ co[c].pc = "returned" => co[c].buf = "freed"
                 /\ co[c].buf = "freed" => req[c].state \in {"none", "done"}

\* a write has returned -EIO for a short count, its buffer released
C23_Witness ==
    \E c \in Co :
        /\ co[c].op = "write" /\ co[c].pc = "returned"
        /\ req[c].state = "done"
        /\ req[c].status = 1
        /\ co[c].ret = -EIO
        /\ co[c].buf = "freed"

\* C30: while the engine holds the request of a write (queued or awaiting its
\* reply) the buffer passed to nfs_pwrite_async is allocated and holds the
\* bytes copied from the caller's vector before submitting; the step that
\* releases it is either the call itself, when submitting failed and the
\* engine has no request, or the step in which the coroutine, entered by its
\* bottom half, finds task.complete set after the engine is done with the
\* request.
C30_WriteBufferLivesWhileInFlight ==
    /\ [](\A c \in Co :
            (co[c].op = "write" /\ req[c].state \in {"outq", "waitq"})
               => /\ co[c].buf = "allocated"
                  /\ co[c].bufdata = [i \in 1 .. req[c].len |-> 170])
    /\ [][\A c \in Co :
            (co'[c].buf = "freed" /\ co[c].buf # "freed")
               => \/ /\ co[c].pc = "idle"
                     /\ req'[c].state = "none"
                     /\ co'[c].ret = -ENOMEM
                  \/ /\ co[c].pc = "yield" /\ co[c].buf = "allocated"
                     /\ task[c].complete = 1
                     /\ req[c].state = "done"
                     /\ run.cb = NoCo
                     /\ hist'[c].entered = hist[c].entered + 1]_vars

\* the request of a write waits for its reply, its coroutine suspended, the
\* buffer allocated
C30_Witness ==
    \E c \in Co :
        /\ co[c].op = "write" /\ co[c].pc = "yield"
        /\ req[c].state = "waitq"
        /\ task[c].complete = 0
        /\ co[c].buf = "allocated"
        /\ Len(co[c].bufdata) = req[c].len
        /\ co[c].bufdata = iov[c]

\* the caller of task c is in the step that calls its operation
CallStep(c) ==
    IF c = MainTask
    THEN main.pc = "idle" /\ main'.op = "allocated_size"
    ELSE co[c].pc = "idle" /\ co'[c].op \in {"read", "write", "flush"}

\* C24: the engine is given a request of a task only in the step that calls
\* nfs_co_readv, nfs_co_writev, nfs_co_flush or nfs_get_allocated_file_size,
\* one per call; a request the engine has completed, with whatever status,
\* is never queued again and stays completed until the call returns; and the
\* call that submitted a request completed with a negative status returns
\* that status.
C24_OneSubmissionNoRetry ==
    /\ [][\A c \in Tasks :
            /\ (req'[c].state = "outq" /\ req[c].state # "outq")
                  => (CallStep(c) /\ req[c].state = "none")
            /\ CallStep(c) => req'[c].state \in {"outq", "none"}
            /\ req[c].state = "waitq" => req'[c].state \in {"waitq", "done"}
            /\ req[c].state = "done"
                  => \/ req'[c] = req[c]
                     \/ /\ req'[c].state = "none"
                        /\ IF c = MainTask THEN main.pc = "returned"
                                           ELSE co[c].pc = "returned"]_vars
    /\ [](/\ \A c \in Co :
               (co[c].pc = "returned" /\ req[c].state = "done"
                   /\ req[c].status < 0)
               => co[c].ret = req[c].status
          /\ (main.pc = "returned" /\ main.op = "allocated_size"
                 /\ req[MainTask].state = "done" /\ req[MainTask].status < 0)
             => main.ret = req[MainTask].status)

\* a flush and the query of the allocated size were both completed with an
\* error; the flush has returned its error while the query is yet to return
C24_Witness ==
    \E c \in Co :
        /\ co[c].op = "flush" /\ co[c].pc = "returned"
        /\ req[c].state = "done" /\ req[c].status = -EIO
        /\ co[c].ret = -EIO
        /\ main.op = "allocated_size"
        /\ req[MainTask].state = "done" /\ req[MainTask].status < 0

\* C25: the callback writes the struct stat of the caller only for a task
\* that asked for it (task.st set) and whose status is 0, and then with the
\* metadata of the reply; a step of the callback of a coroutine task leaves
\* it alone.  A query completed with a negative status leaves the struct
\* stat as it was and nfs_get_allocated_file_size returns that status.
C25_MetadataOnlyOnSuccess ==
    /\ [][/\ main'.st # main.st /\ main'.pc # "idle"
             => /\ run.cb = MainTask /\ run.line = 116
                /\ task[MainTask].st
                /\ task[MainTask].status = 0
                /\ req[MainTask].status = 0
                /\ main'.st = req[MainTask].data
          /\ (run.cb = MainTask /\ run.line = 116 /\ run'.line = 122
                 /\ task[MainTask].status = 0)
             => main'.st = req[MainTask].data]_vars
    /\ [](\A c \in Co : ~task[c].st)
    /\ []((main.op = "allocated_size" /\ req[MainTask].state = "done"
              /\ req[MainTask].status < 0)
          => /\ main.st = NoStat
             /\ main.pc = "returned" => main.ret = req[MainTask].status)

\* the query has returned the negative status of the engine, the struct stat
\* untouched although the reply carried metadata
C25_Witness ==
    /\ main.op = "allocated_size" /\ main.pc = "returned"
    /\ req[MainTask].state = "done"
    /\ req[MainTask].status = -13
    /\ req[MainTask].data.st_blocks > 0
    /\ main.ret = -13
    /\ main.st = NoStat

\* ----------------------------------------------------------- properties of the task's lifetime
\* the operation that owns task c exists: it has been called and has not
\* reached its return
Owned(c) ==
    IF c = MainTask THEN main.op = "allocated_size" /\ main.pc = "aio_wait"
                    ELSE co[c].pc = "yield"

\* the operation that owns task c has reached its return, or none is called
Gone(c) ==
    IF c = MainTask THEN main.pc \in {"idle", "returned"}
                    ELSE co[c].pc \in {"idle", "returned"}

\* C26: once an operation has reached its return, nothing refers to its task:
\* the engine holds no request of it, no callback of it is running and no
\* bottom half of it is scheduled.  A task changes only in the step that
\* creates it, in steps of its callback and its bottom half taken while its
\* operation waits, and when the frame goes; the bottom half deletes its
\* handle, enters the coroutine and changes nothing else of the task.
C26_NoTaskUseAfterReturn ==
    /\ [](\A c \in Tasks :
            Gone(c) => /\ req[c].state \in {"none", "done"}
                       /\ run.cb # c
                       /\ task[c].bh # "scheduled")
    /\ [][\A c \in Tasks :
            /\ task'[c] # task[c]
                  => \/ Owned(c)
                     \/ Gone(c) /\ task'[c] = NullTask
                     \/ /\ CallStep(c)
                        /\ task'[c].complete = 0 /\ task'[c].status = 0
                        /\ task'[c].bh = "NULL"
                        /\ task'[c].co = IF c = MainTask THEN NoCo ELSE c
            /\ hist'[c].ran > hist[c].ran
                  => /\ Owned(c)
                     /\ task'[c] = [task[c] EXCEPT !.bh = "deleted"]
                     /\ ~Owned(c)']_vars

\* the bottom half of a read has run: its handle is deleted and the read has
\* reached its return with nothing of its task pending
C26_Witness ==
    \E c \in Co :
        /\ co[c].op = "read" /\ co[c].pc = "returned"
        /\ hist[c].ran = 1
        /\ task[c].bh = "deleted"
        /\ task[c].complete = 1
        /\ req[c].state = "done"
        /\ run.cb = NoCo

\* ----------------------------------------------------------- properties of the registration
\* no handler is registered for the fd
Unregistered == qemu_aio_set_fd_handler(FALSE, FALSE)

\* C27: the read handler is registered exactly if the stored mask has POLLIN
\* and the write handler exactly if it has POLLOUT, in every state of a
\* device that is opened, used, closed and opened again; a closed client has
\* mask zero and no handler, and so has a client whose open has just
\* returned.
C27_RegistrationEqualsMask ==
    /\ handler = HandlersFor(client.events)
    /\ ~client.context => (client.events = {} /\ handler = Unregistered)
    /\ (main.pc = "returned" /\ main.op \in {"open", "close"})
          => (client.events = {} /\ handler = Unregistered)

\* a close has returned from a device whose read handler was registered
C27_Witness ==
    /\ main.pc = "returned" /\ main.op = "close"
    /\ main.closes[1].hbefore.io_read
    /\ main.closes[1].before.events = {POLLIN}
    /\ client.events = {} /\ handler = Unregistered

\* the position of the first call of f in the sequence of calls, 0 if none
RECURSIVE FirstCall(_, _, _)
FirstCall(calls, f, i) ==
    IF i > Len(calls) THEN 0
    ELSE IF calls[i].f = f THEN i
    ELSE FirstCall(calls, f, i + 1)

\* C28: a handler is registered only for a client that has its context; each
\* run of nfs_client_close on a client with a context unregisters the fd
\* before it destroys the context and leaves no handler; and the reactor
\* enters nfs_process_read (nfs_service(POLLIN)) or nfs_process_write only
\* for a client with a context.
C28_NoHandlerWithoutContext ==
    /\ []((handler.io_read \/ handler.io_write) => client.context)
    /\ [](\A i \in 1 .. Len(main.closes) :
             main.closes[i].before.context
                => LET calls == main.closes[i].calls
                       u == FirstCall(calls, "qemu_aio_set_fd_handler", 1)
                       d == FirstCall(calls, "nfs_destroy_context", 1)
                   IN /\ 0 < u /\ u < d
                      /\ main.closes[i].hafter = Unregistered
                      /\ ~main.closes[i].after.context)
    /\ [][/\ (run.svc = "none" /\ run'.svc # "none") => client.context
          /\ (\E c \in Tasks : req[c].state = "outq" /\ req'[c].state = "waitq")
                => client.context
          /\ ~client.context => (run'.svc = "none" /\ handler' = Unregistered)]_vars

\* a close has returned that took the read handler off a device with requests
\* served before, and destroyed its context
C28_Witness ==
    /\ main.pc = "returned" /\ main.op = "close"
    /\ Len(main.closes) = 1
    /\ main.closes[1].before.context /\ main.closes[1].before.fh
    /\ main.closes[1].hbefore = HandlersFor({POLLIN})
    /\ handler = Unregistered
    /\ ~client.context
    /\ nops > 0

\* ----------------------------------------------------------- properties of the wake-up
\* C29: a bottom half of task c runs only while the coroutine of that task is
\* suspended at the yield of its wait loop with task.complete set, and it is
\* that coroutine it enters; a suspended coroutine goes on only in such a
\* step and then leaves the loop and reaches its return; the yield is reached
\* only from the call itself.  So a read, write or flush yields at most
\* once.
C29_WakeupOnlyWhenComplete ==
    [][\A c \in Co :
          /\ hist'[c].ran > hist[c].ran
                => /\ task[c].co = c
                   /\ co[c].pc = "yield"
                   /\ co[c].op \in {"read", "write", "flush"}
                   /\ task[c].complete = 1
                   /\ hist'[c].entered = hist[c].entered + 1
          /\ hist'[c].entered > hist[c].entered
                => /\ co[c].pc = "yield"
                   /\ task[c].complete = 1
                   /\ hist'[c].ran > hist[c].ran
                   /\ co'[c].pc = "returned"
          /\ (co[c].pc = "yield" /\ co'[c] # co[c])
                => (task[c].complete = 1 /\ co'[c].pc = "returned")
          /\ (co'[c].pc = "yield" /\ co[c].pc # "yield") => co[c].pc = "idle"]_vars

\* the bottom half of one coroutine has run and its call has reached the
\* return after one entry, while the other coroutine, whose request still
\* awaits the reply, stays suspended and was not entered
C29_Witness ==
    \E c, d \in Co :
        /\ co[c].pc = "returned" /\ task[c].complete = 1
        /\ hist[c] = [sched |-> 1, ran |-> 1, entered |-> 1]
        /\ co[d].pc = "yield" /\ task[d].complete = 0 /\ req[d].state = "waitq"
        /\ hist[d].entered = 0

\* ----------------------------------------------------------- properties of the client's pointers
\* the client has no file handle without a context
HandleHasContext(cl) == cl.fh => cl.context

\* C31: the client of the device, the client an open or create worked on, and
\* the client every run of nfs_client_close found and left, have a file
\* handle only together with a context; from the return of an open that
\* succeeded to the close of the device the client has both, and the device
\* stops being open only by nfs_file_close.
C31_HandleImpliesContext ==
    /\ [](/\ HandleHasContext(client)
          /\ HandleHasContext(main.cl)
          /\ \A i \in 1 .. Len(main.closes) :
                /\ HandleHasContext(main.closes[i].before)
                /\ HandleHasContext(main.closes[i].after)
          /\ bs.drv => (client.context /\ client.fh)
          /\ (main.pc = "returned" /\ main.op = "open" /\ main.ret >= 0)
                => (bs.drv /\ client.context /\ client.fh))
    /\ [][(bs.drv /\ ~bs'.drv)
             => (main'.op = "close" /\ ~client'.fh /\ ~client'.context)]_vars

\* an open has failed at the metadata query after nfs_open gave it a file
\* handle: the close at the label fail found context and file handle and left
\* neither
C31_Witness ==
    /\ main.pc = "returned" /\ main.op = "open" /\ main.ret < 0
    /\ main.errp = "Failed to fstat file"
    /\ Len(main.closes) = 1
    /\ main.closes[1].before.context /\ main.closes[1].before.fh
    /\ ~client.context /\ ~client.fh
    /\ ~bs.drv

====
